---------------------------- MODULE Spec2Model ----------------------------
(***************************************************************************)
(* Model of the boids flocking kernels of src/src/kernel.cu.               *)
(*                                                                         *)
(* Real numbers are fixed-point integers: one unit is 1/FP.  float         *)
(* arithmetic that rounds (division, square root, scaling by 0.01 or 0.1)  *)
(* rounds here too, towards zero; sums are exact.  Vectors are triples     *)
(* <<x, y, z>>, device arrays are functions on 0..N-1 as in the source.    *)
(***************************************************************************)
EXTENDS Integers, Sequences, FiniteSets, TLC

(***************************************************************************)
(* Bounds of the model                                                     *)
(***************************************************************************)
FP == 100          \* fixed-point resolution (units per 1.0f)
MaxN == 3          \* largest particle count N
MaxSteps == 2      \* steps taken after initSimulation

(***************************************************************************)
(* Configuration (kernel.cu lines 55-74)                                   *)
(***************************************************************************)
rule1Distance == 5 * FP
rule2Distance == 3 * FP
rule3Distance == 5 * FP
\* rule1Scale = 0.01f, rule2Scale = rule3Scale = 0.1f, kept as the divisor
rule1ScaleInv == 100
rule2ScaleInv == 10
rule3ScaleInv == 10
maxSpeed == 2 * FP
scene_scale == 100 * FP
\* cell_width_mul = 2.0f
cell_width_mul == 2

Axes == 1..3

(***************************************************************************)
(* float and glm::vec3 arithmetic                                          *)
(***************************************************************************)
Max2(a, b) == IF a > b THEN a ELSE b

\* float division, rounded towards zero to the fixed-point grid
FDiv(a, b) == IF a >= 0 THEN a \div b ELSE -((-a) \div b)

\* float product of two fixed-point values
FMul(a, b) == FDiv(a * b, FP)

RECURSIVE SqrtSearch(_, _, _)
SqrtSearch(n, lo, hi) ==
  IF lo >= hi THEN lo
  ELSE LET mid == (lo + hi + 1) \div 2
       IN IF mid * mid <= n THEN SqrtSearch(n, mid, hi)
                            ELSE SqrtSearch(n, lo, mid - 1)

\* sqrtf on fixed-point squares: the largest r with r * r <= n (the search
\* stays below 46341, whose square no longer fits 32 bits)
FSqrt(n) == SqrtSearch(n, 0, IF n < 46340 THEN n ELSE 46340)

Zero3 == <<0, 0, 0>>
VAdd(a, b) == [k \in Axes |-> a[k] + b[k]]
VSub(a, b) == [k \in Axes |-> a[k] - b[k]]
VDivS(a, s) == [k \in Axes |-> FDiv(a[k], s)]
VDivF(a, f) == [k \in Axes |-> FDiv(a[k] * FP, f)]
VMulF(a, f) == [k \in Axes |-> FMul(a[k], f)]
Dot(a, b) == a[1] * b[1] + a[2] * b[2] + a[3] * b[3]
\* glm::length and glm::distance
length(v) == FSqrt(Dot(v, v))
distance(a, b) == length(VSub(a, b))


(***************************************************************************)
(* Rule evaluation: the loop body and the tail shared by                   *)
(* computeVelocityChange and the two neighbour-search kernels              *)
(***************************************************************************)
NoNeighbors ==
  [perceived_center |-> Zero3, perceived_velocity |-> Zero3,
   rule2offset |-> Zero3, cnt0 |-> 0, cnt1 |-> 0]

\* a variant whose three distance tests are not strict
visitBoid_le(acc, i, iSelf, pos, vel) ==
  IF i = iSelf THEN acc
  ELSE LET dist == distance(pos[i], pos[iSelf])
       IN [perceived_center |->
             IF dist <= rule1Distance THEN VAdd(acc.perceived_center, pos[i])
                                     ELSE acc.perceived_center,
           cnt0 |-> IF dist <= rule1Distance THEN acc.cnt0 + 1 ELSE acc.cnt0,
           rule2offset |->
             IF dist <= rule2Distance
               THEN VSub(acc.rule2offset, VSub(pos[i], pos[iSelf]))
               ELSE acc.rule2offset,
           perceived_velocity |->
             IF dist <= rule3Distance THEN VAdd(acc.perceived_velocity, vel[i])
                                     ELSE acc.perceived_velocity,
           cnt1 |-> IF dist <= rule3Distance THEN acc.cnt1 + 1 ELSE acc.cnt1]

\* one iteration of the loop over the candidate i
visitBoid(acc, i, iSelf, pos, vel) ==
  IF i = iSelf THEN acc
  ELSE LET dist == distance(pos[i], pos[iSelf])
       IN [perceived_center |->
             IF dist < rule1Distance THEN VAdd(acc.perceived_center, pos[i])
                                     ELSE acc.perceived_center,
           cnt0 |-> IF dist < rule1Distance THEN acc.cnt0 + 1 ELSE acc.cnt0,
           rule2offset |->
             IF dist < rule2Distance
               THEN VSub(acc.rule2offset, VSub(pos[i], pos[iSelf]))
               ELSE acc.rule2offset,
           perceived_velocity |->
             IF dist < rule3Distance THEN VAdd(acc.perceived_velocity, vel[i])
                                     ELSE acc.perceived_velocity,
           cnt1 |-> IF dist < rule3Distance THEN acc.cnt1 + 1 ELSE acc.cnt1]

\* the loop over the candidates cands[1..k], in order
RECURSIVE visitAll(_, _, _, _, _)
visitAll(cands, k, iSelf, pos, vel) ==
  IF k = 0 THEN NoNeighbors
  ELSE visitBoid(visitAll(cands, k - 1, iSelf, pos, vel), cands[k], iSelf, pos, vel)

\* averaging and scaling of the three rules after the loop
ruleSum(acc, iSelf, pos) ==
  LET center == IF acc.cnt0 # 0
                  THEN VDivS(VSub(VDivS(acc.perceived_center, acc.cnt0), pos[iSelf]),
                             rule1ScaleInv)
                  ELSE acc.perceived_center
      velocity == IF acc.cnt1 # 0
                    THEN VDivS(VDivS(acc.perceived_velocity, acc.cnt1), rule3ScaleInv)
                    ELSE acc.perceived_velocity
      offset == VDivS(acc.rule2offset, rule2ScaleInv)
  IN VAdd(VAdd(center, offset), velocity)

\* a variant without the clamp
clampSpeed_none(velocity) == velocity

\* the speed clamp that ends every velocity kernel
clampSpeed(velocity) ==
  LET speed == length(velocity)
  IN IF speed > maxSpeed THEN VMulF(VDivF(velocity, speed), maxSpeed)
                         ELSE velocity

\* the candidates of the brute-force loop: i = 0 .. N-1
allBoids(N) == [k \in 1..N |-> k - 1]

computeVelocityChange(N, iSelf, pos, vel) ==
  ruleSum(visitAll(allBoids(N), N, iSelf, pos, vel), iSelf, pos)

\* the value thread `index` of kernUpdateVelocityBruteForce stores in vel2[index]
bruteForceThread(index, N, pos, vel1) ==
  clampSpeed(VAdd(vel1[index], computeVelocityChange(N, index, pos, vel1)))

kernUpdateVelocityBruteForce(N, pos, vel1, vel2) ==
  [index \in DOMAIN vel2 |->
     IF index >= N THEN vel2[index] ELSE bruteForceThread(index, N, pos, vel1)]

(***************************************************************************)
(* Position integration                                                    *)
(***************************************************************************)
wrapLow(c) == IF c < -scene_scale THEN scene_scale ELSE c
\* variants of the wrap at +scene_scale: none, and one that keeps the excess
wrapHigh_none(c) == c
wrapHigh_excess(c) == IF c > scene_scale THEN c - 2 * scene_scale ELSE c
wrapHigh(c) == IF c > scene_scale THEN -scene_scale ELSE c

\* a variant that moves by the velocity whatever dt is
integrate_unit(p, v, dt) == VAdd(p, v)

\* thisPos before the wrap: pos[index] + vel[index] * dt
integrate(p, v, dt) == VAdd(p, VMulF(v, dt))

updatePosThread(index, dt, pos, vel) ==
  LET thisPos == integrate(pos[index], vel[index], dt)
  IN [k \in Axes |-> wrapHigh(wrapLow(thisPos[k]))]

kernUpdatePos(N, dt, pos, vel) ==
  [index \in DOMAIN pos |->
     IF index >= N THEN pos[index] ELSE updatePosThread(index, dt, pos, vel)]

(***************************************************************************)
(* Uniform grid: cell of a position, flattening, index build               *)
(***************************************************************************)
gridIndex3Dto1D(x, y, z, gridResolution) ==
  x + y * gridResolution + z * gridResolution * gridResolution

\* rel_pos = (position - gridMin) * inverseCellWidth, with inverseCellWidth the
\* exact reciprocal of cellWidth; \div is std::floor of the quotient
getGridIndex(position, cellWidth, gridMin) ==
  [k \in Axes |-> (position[k] - gridMin[k]) \div cellWidth]

\* the assertion of getGridIndex: rel_pos >= 0 on every axis
getGridIndexAssert(position, cellWidth, gridMin) ==
  \A k \in Axes : position[k] - gridMin[k] >= 0

computeIndicesThread(index, gridResolution, gridMin, cellWidth, pos) ==
  LET grid_pos == getGridIndex(pos[index], cellWidth, gridMin)
  IN gridIndex3Dto1D(grid_pos[1], grid_pos[2], grid_pos[3], gridResolution)

\* kernComputeIndices: the pair (indices, gridIndices) it leaves
kernComputeIndices(N, gridResolution, gridMin, cellWidth, pos) ==
  [indices |-> [index \in 0..(N - 1) |-> index],
   gridIndices |-> [index \in 0..(N - 1) |->
      computeIndicesThread(index, gridResolution, gridMin, cellWidth, pos)]]

\* the assertion that ends kernComputeIndices
computeIndicesAssert(N, gridResolution, gridIndices) ==
  \A index \in 0..(N - 1) :
     /\ gridIndices[index] >= 0
     /\ gridIndices[index] < gridResolution * gridResolution * gridResolution

(***************************************************************************)
(* thrust::sort_by_key: every outcome an unstable key sort may produce     *)
(***************************************************************************)
Permutations0(N) ==
  {f \in [0..(N - 1) -> 0..(N - 1)] : \A i, j \in 0..(N - 1) : i # j => f[i] # f[j]}

IsSorted(keys, N) == \A i \in 0..(N - 2) : keys[i] <= keys[i + 1]

sort_by_key(keys, values, N) ==
  {[keys |-> [i \in 0..(N - 1) |-> keys[f[i]]],
    values |-> [i \in 0..(N - 1) |-> values[f[i]]]] :
      f \in {g \in Permutations0(N) : IsSorted([i \in 0..(N - 1) |-> keys[g[i]]], N)}}

(***************************************************************************)
(* Cell range table                                                        *)
(***************************************************************************)
\* The cell tables are int arrays of gridCellCount entries of which a step
\* writes at most N after resetting all: an array is kept as its size, the
\* entries `cells` written one by one, and the value `rest` of all others.
bufLoad(intBuffer, c) ==
  IF c \in DOMAIN intBuffer.cells THEN intBuffer.cells[c] ELSE intBuffer.rest

bufStore(intBuffer, c, value) ==
  [intBuffer EXCEPT !.cells =
     [d \in (DOMAIN intBuffer.cells) \cup {c} |->
        IF d = c THEN value ELSE intBuffer.cells[d]]]

\* the buffer as an array, for buffers small enough to enumerate
bufArray(intBuffer) == [c \in 0..(intBuffer.size - 1) |-> bufLoad(intBuffer, c)]

kernResetIntBuffer(N, intBuffer, value) ==
  IF N >= intBuffer.size
    THEN [size |-> intBuffer.size, rest |-> value, cells |-> <<>>]
    ELSE [size |-> intBuffer.size, rest |-> intBuffer.rest,
          cells |-> [c \in (DOMAIN intBuffer.cells) \cup 0..(N - 1) |->
                       IF c < N THEN value ELSE intBuffer.cells[c]]]

\* a variant in which every thread stores its index as the start of its cell
startWriters_all(N, particleGridIndices) == 0..(N - 1)

\* the threads of kernIdentifyCellStartEnd that write gridCellStartIndices
startWriters(N, particleGridIndices) ==
  {index \in 0..(N - 1) :
     index = 0 \/ particleGridIndices[index - 1] # particleGridIndices[index]}

\* the threads that write gridCellEndIndices
endWriters(N, particleGridIndices) ==
  {index \in 0..(N - 1) :
     index = N - 1 \/ particleGridIndices[index + 1] # particleGridIndices[index]}

\* the table after the threads order[1..k] that are in `writers` have each
\* stored index + offset at their cell, one after the other
RECURSIVE storeAll(_, _, _, _, _, _)
storeAll(table, order, k, writers, particleGridIndices, offset) ==
  IF k = 0 THEN table
  ELSE LET before == storeAll(table, order, k - 1, writers, particleGridIndices, offset)
           index == order[k]
       IN IF index \in writers
            THEN bufStore(before, particleGridIndices[index], index + offset)
            ELSE before

\* a variant that stores the last slot of a cell (a closed range) as its end
kernIdentifyCellStartEnd_closed(N, particleGridIndices, gridCellStartIndices, gridCellEndIndices) ==
  [start |-> storeAll(gridCellStartIndices, allBoids(N), N,
                      startWriters(N, particleGridIndices), particleGridIndices, 0),
   end |-> storeAll(gridCellEndIndices, allBoids(N), N,
                    endWriters(N, particleGridIndices), particleGridIndices, 0)]

kernIdentifyCellStartEnd(N, particleGridIndices, gridCellStartIndices, gridCellEndIndices) ==
  [start |-> storeAll(gridCellStartIndices, allBoids(N), N,
                      startWriters(N, particleGridIndices), particleGridIndices, 0),
   end |-> storeAll(gridCellEndIndices, allBoids(N), N,
                    endWriters(N, particleGridIndices), particleGridIndices, 1)]

(***************************************************************************)
(* Neighbour search                                                        *)
(***************************************************************************)
\* genNeighborCells: deltas[i] = {0, boid_pos[i] > grid_center[i] ? 1 : -1} with
\* grid_center = grid_pos * cellWidth and boid_pos in grid local space; the
\* cells are emitted with z outermost and x innermost
neighborDelta(boid_pos, grid_pos, gridMin, cellWidth) ==
  [k \in Axes |->
     IF boid_pos[k] - gridMin[k] > grid_pos[k] * cellWidth THEN 1 ELSE -1]

genNeighborCells(boid_pos, grid_pos, gridMin, cellWidth) ==
  LET d == neighborDelta(boid_pos, grid_pos, gridMin, cellWidth)
      deltas == [k \in Axes |-> <<0, d[k]>>]
  IN [n \in 1..8 |->
        LET x == deltas[1][((n - 1) % 2) + 1]
            y == deltas[2][(((n - 1) \div 2) % 2) + 1]
            z == deltas[3][(((n - 1) \div 4) % 2) + 1]
        IN VAdd(grid_pos, <<x, y, z>>)]

\* the 27-cell loops: dx outermost, dz innermost, each from -1 to 1
blockCells(grid_pos) ==
  [n \in 1..27 |->
     LET dx == ((n - 1) \div 9) - 1
         dy == (((n - 1) \div 3) % 3) - 1
         dz == ((n - 1) % 3) - 1
     IN VAdd(grid_pos, <<dx, dy, dz>>)]

\* the cells a neighbour search visits; impl8 stands for #ifdef IMPL_8
neighborCells(impl8, boid_pos, grid_pos, gridMin, cellWidth) ==
  IF impl8 THEN genNeighborCells(boid_pos, grid_pos, gridMin, cellWidth)
           ELSE blockCells(grid_pos)

\* the test that guards the read of a candidate cell's range
cellVisited(npos, gridResolution) ==
  LET grid_index == gridIndex3Dto1D(npos[1], npos[2], npos[3], gridResolution)
      num_grids == gridResolution * gridResolution * gridResolution
  IN grid_index >= 0 /\ grid_index < num_grids

\* for (j = start; j < end; ++j): the slots j of the sorted arrays in one cell
cellSlots(npos, gridResolution, gridCellStartIndices, gridCellEndIndices) ==
  IF cellVisited(npos, gridResolution)
    THEN LET grid_index == gridIndex3Dto1D(npos[1], npos[2], npos[3], gridResolution)
             start == bufLoad(gridCellStartIndices, grid_index)
             end == bufLoad(gridCellEndIndices, grid_index)
         IN IF end > start THEN [k \in 1..(end - start) |-> start + k - 1] ELSE <<>>
    ELSE <<>>

\* the slots visited over the first k cells of `cells`, in loop order
RECURSIVE visitedSlots(_, _, _, _, _)
visitedSlots(cells, k, gridResolution, gridCellStartIndices, gridCellEndIndices) ==
  IF k = 0 THEN <<>>
  ELSE visitedSlots(cells, k - 1, gridResolution, gridCellStartIndices,
                    gridCellEndIndices)
       \o cellSlots(cells[k], gridResolution, gridCellStartIndices, gridCellEndIndices)

\* the slots of the sorted arrays that thread `index` loops over
searchSlots(impl8, index, g, gridCellStartIndices, gridCellEndIndices, pos) ==
  LET grid_pos == getGridIndex(pos[index], g.gridCellWidth, g.gridMinimum)
      cells == neighborCells(impl8, pos[index], grid_pos, g.gridMinimum, g.gridCellWidth)
  IN visitedSlots(cells, Len(cells), g.gridSideCount,
                  gridCellStartIndices, gridCellEndIndices)

\* kernUpdateVelNeighborSearchScattered: the boids i = particleArrayIndices[j]
scatteredCandidates(impl8, index, g, gridCellStartIndices, gridCellEndIndices, particleArrayIndices, pos) ==
  LET slots == searchSlots(impl8, index, g, gridCellStartIndices,
                           gridCellEndIndices, pos)
  IN [k \in 1..Len(slots) |-> particleArrayIndices[slots[k]]]

scatteredThread(impl8, index, g, gridCellStartIndices, gridCellEndIndices, particleArrayIndices, pos, vel1) ==
  LET cands == scatteredCandidates(impl8, index, g, gridCellStartIndices,
                                   gridCellEndIndices, particleArrayIndices, pos)
      acc == visitAll(cands, Len(cands), index, pos, vel1)
  IN clampSpeed(VAdd(vel1[index], ruleSum(acc, index, pos)))

kernUpdateVelNeighborSearchScattered(impl8, N, g, gridCellStartIndices, gridCellEndIndices, particleArrayIndices, pos, vel1, vel2) ==
  [index \in DOMAIN vel2 |->
     IF index >= N THEN vel2[index]
     ELSE scatteredThread(impl8, index, g, gridCellStartIndices, gridCellEndIndices,
                          particleArrayIndices, pos, vel1)]

\* kernUpdateVelNeighborSearchCoherent: the slot is used directly as the boid
coherentThread(impl8, index, g, gridCellStartIndices, gridCellEndIndices, pos, vel1) ==
  LET cands == searchSlots(impl8, index, g, gridCellStartIndices,
                           gridCellEndIndices, pos)
      acc == visitAll(cands, Len(cands), index, pos, vel1)
  IN clampSpeed(VAdd(vel1[index], ruleSum(acc, index, pos)))

kernUpdateVelNeighborSearchCoherent(impl8, N, g, gridCellStartIndices, gridCellEndIndices, pos, vel1, vel2) ==
  [index \in DOMAIN vel2 |->
     IF index >= N THEN vel2[index]
     ELSE coherentThread(impl8, index, g, gridCellStartIndices, gridCellEndIndices,
                         pos, vel1)]

(***************************************************************************)
(* Coherent layout                                                         *)
(***************************************************************************)
\* kernFillCoherentArrays, for one of the two arrays it fills
\* a variant that scatters through the index array instead of gathering
kernFillCoherentArrays_scatter(N, particleArrayIndices, coherent, original) ==
  [index \in DOMAIN coherent |->
     IF index >= N THEN coherent[index]
     ELSE original[CHOOSE k \in 0..(N - 1) : particleArrayIndices[k] = index]]

kernFillCoherentArrays(N, particleArrayIndices, coherent, original) ==
  [index \in DOMAIN coherent |->
     IF index >= N THEN coherent[index] ELSE original[particleArrayIndices[index]]]

\* kernFillOriginalArrays, for one of the two arrays: thread index stores
\* coherent[index] at original[particleArrayIndices[index]], threads in order
RECURSIVE scatterBack(_, _, _, _)
scatterBack(k, particleArrayIndices, original, coherent) ==
  IF k = 0 THEN original
  ELSE [scatterBack(k - 1, particleArrayIndices, original, coherent)
          EXCEPT ![particleArrayIndices[k - 1]] = coherent[k - 1]]

\* a variant that gathers through the index array instead of scattering
kernFillOriginalArrays_gather(N, particleArrayIndices, original, coherent) ==
  [index \in DOMAIN original |->
     IF index >= N THEN original[index] ELSE coherent[particleArrayIndices[index]]]

kernFillOriginalArrays(N, particleArrayIndices, original, coherent) ==
  scatterBack(N, particleArrayIndices, original, coherent)

(***************************************************************************)
(* Kernel state                                                            *)
(***************************************************************************)
VARIABLES
  pc,          \* "uninit", "running" or "ended": where the host program is
  IMPL_8,      \* whether the build defines IMPL_8
  numObjects,
  grid,        \* gridCellCount, gridSideCount, gridCellWidth, gridMinimum
  dev,         \* the device pointers dev_pos, dev_vel1, ...: a buffer id each
  mem,         \* contents of the allocated device buffers, by buffer id
  steps,       \* number of steps taken so far
  last         \* the last step: its strategy, dt and the state it started from

vars == <<pc, IMPL_8, numObjects, grid, dev, mem, steps, last>>

NULL == 0
\* content of device memory that was allocated and never written
Junk == "junk"

Pointers ==
  {"dev_pos", "dev_vel1", "dev_vel2", "dev_particleArrayIndices",
   "dev_particleGridIndices", "dev_gridCellStartIndices",
   "dev_gridCellEndIndices", "dev_coherentPos", "dev_coherentVel2"}

\* contents of the arrays the pointers refer to
pos_ == mem[dev.dev_pos]
vel1_ == mem[dev.dev_vel1]

(***************************************************************************)
(* Inputs: sample values for generateRandomVec3 and for the content of     *)
(* dev_vel1, which initSimulation allocates and never fills                *)
(***************************************************************************)
Half == FP \div 2
pA == <<Half, Half, Half>>                  \* just above a cell corner
pB == <<-Half, Half, Half>>                 \* 1.0 from pA, in the cell below on x
pC == <<Half + 4 * FP, Half, Half>>         \* cell of pA; 4.0 from pA, 5.0 from pB
pD == <<scene_scale - Half, scene_scale - Half, scene_scale - Half>>
pE == <<-scene_scale, -scene_scale, -scene_scale>>
pF == <<Half, -Half, Half>>                 \* 1.0 from pA, in the cell below on y
pG == <<Half, Half, -Half>>                 \* 1.0 from pA, in the cell below on z
pH == <<scene_scale - Half, Half, -scene_scale + Half>>

v0 == Zero3
v1 == <<(12 * FP) \div 10, (8 * FP) \div 10, (9 * FP) \div 10>>
v2 == <<-2 * FP, -3 * FP, -6 * FP>>
v3 == <<3 * FP, 4 * FP, 0>>
v4 == <<FP, 0, -FP>>

Boid(p, v) == [pos |-> p, vel |-> v]

\* each scenario lists the boids by index; initSimulation(N) takes the first N
Scenarios ==
  << <<Boid(pA, v1), Boid(pB, v0), Boid(pC, v3), Boid(pD, v1), Boid(pE, v2)>>,
     <<Boid(pC, v0), Boid(pA, v4), Boid(pA, v1), Boid(pB, v2), Boid(pF, v3)>>,
     <<Boid(pD, v3), Boid(pH, v4), Boid(pE, v2), Boid(pA, v0), Boid(pB, v1)>>,
     <<Boid(pB, v4), Boid(pF, v1), Boid(pG, v0), Boid(pA, v2), Boid(pC, v3)>>,
     <<Boid(pE, v2), Boid(pA, v3), Boid(pD, v1), Boid(pG, v4), Boid(pB, v0)>>,
     <<Boid(pA, v0), Boid(pG, v0), Boid(pF, v0), Boid(pB, v0), Boid(pC, v0)>> >>

DtSamples == {0, FP}

(***************************************************************************)
(* initSimulation                                                          *)
(***************************************************************************)
\* kernGenerateRandomPosArray: scale * generateRandomVec3, each coordinate of
\* which lies in [-1, 1)
kernGenerateRandomPosArray(N, scenario) ==
  [index \in 0..(N - 1) |-> scenario[index + 1].pos]

\* the grid parameters initSimulation computes; gridMinimum is decremented
gridParams(old) ==
  LET gridCellWidth == cell_width_mul * Max2(Max2(rule1Distance, rule2Distance), rule3Distance)
      halfSideCount == (scene_scale \div gridCellWidth) + 1
      gridSideCount == 2 * halfSideCount
      halfGridWidth == gridCellWidth * halfSideCount
  IN [gridCellWidth |-> gridCellWidth,
      gridSideCount |-> gridSideCount,
      gridCellCount |-> gridSideCount * gridSideCount * gridSideCount,
      gridMinimum |-> [k \in Axes |-> old.gridMinimum[k] - halfGridWidth]]

\* the buffer ids cudaMalloc hands out, in the order of the nine allocations
allocOrder ==
  <<"dev_pos", "dev_vel1", "dev_vel2", "dev_particleArrayIndices",
    "dev_particleGridIndices", "dev_gridCellStartIndices",
    "dev_gridCellEndIndices", "dev_coherentPos", "dev_coherentVel2">>

initSimulation(N, scenario) ==
  /\ pc = "uninit"
  /\ numObjects' = N
  /\ dev' = [p \in Pointers |-> CHOOSE id \in 1..Len(allocOrder) : allocOrder[id] = p]
  /\ grid' = gridParams(grid)
  /\ mem' = [id \in 1..Len(allocOrder) |->
               CASE allocOrder[id] = "dev_pos" -> kernGenerateRandomPosArray(N, scenario)
                 [] allocOrder[id] = "dev_vel1" -> [index \in 0..(N - 1) |-> scenario[index + 1].vel]
                 [] allocOrder[id] \in {"dev_gridCellStartIndices", "dev_gridCellEndIndices"} -> [size |-> gridParams(grid).gridCellCount, rest |-> Junk, cells |-> <<>>]
                 [] OTHER -> [index \in 0..(N - 1) |-> Junk]]
  /\ pc' = "running"
  /\ UNCHANGED <<IMPL_8, steps, last>>

(***************************************************************************)
(* stepSimulation                                                          *)
(***************************************************************************)
NoStep == [kind |-> "none", dt |-> 0, pos |-> <<>>, vel |-> <<>>, indices |-> <<>>]

recordStep(kind, dt, indices) ==
  [kind |-> kind, dt |-> dt, pos |-> pos_, vel |-> vel1_, indices |-> indices]

\* a step that leaves the velocity pointers as they are
swap_none(d) == d

\* std::swap(dev_vel1, dev_vel2), which ends the naive and the scattered step
swap(d) == [d EXCEPT !.dev_vel1 = d.dev_vel2, !.dev_vel2 = d.dev_vel1]

stepSimulationNaive(dt) ==
  /\ pc = "running"
  /\ steps < MaxSteps
  /\ LET vel2 == kernUpdateVelocityBruteForce(numObjects, pos_, vel1_, mem[dev.dev_vel2])
         pos == kernUpdatePos(numObjects, dt, pos_, vel2)
     IN mem' = [mem EXCEPT ![dev.dev_vel2] = vel2, ![dev.dev_pos] = pos]
  /\ dev' = swap(dev)
  /\ steps' = steps + 1
  /\ last' = recordStep("naive", dt, <<>>)
  /\ UNCHANGED <<pc, IMPL_8, numObjects, grid>>

\* kernComputeIndices and sort_by_key, which open both grid steps: every
\* outcome of the sort, as the sorted (keys, values)
sortedIndices(N, g, pos) ==
  LET labelled == kernComputeIndices(N, g.gridSideCount, g.gridMinimum, g.gridCellWidth, pos)
  IN sort_by_key(labelled.gridIndices, labelled.indices, N)

\* the two kernResetIntBuffer and kernIdentifyCellStartEnd that follow
cellTable(N, g, particleGridIndices, oldStart, oldEnd) ==
  kernIdentifyCellStartEnd(N, particleGridIndices,
     kernResetIntBuffer(g.gridCellCount, oldStart, -1),
     kernResetIntBuffer(g.gridCellCount, oldEnd, -1))

\* the index arrays and the cell table of a grid step whose sort gave `sorted`
gridBuild(sorted) ==
  [indices |-> sorted.values,
   gridIndices |-> sorted.keys,
   table |-> cellTable(numObjects, grid, sorted.keys,
               mem[dev.dev_gridCellStartIndices], mem[dev.dev_gridCellEndIndices])]

stepSimulationScatteredGrid(dt) ==
  /\ pc = "running"
  /\ steps < MaxSteps
  /\ \E sorted \in sortedIndices(numObjects, grid, pos_) :
       LET b == gridBuild(sorted)
           vel2 == kernUpdateVelNeighborSearchScattered(IMPL_8, numObjects, grid,
                     b.table.start, b.table.end, b.indices, pos_, vel1_, mem[dev.dev_vel2])
           pos == kernUpdatePos(numObjects, dt, pos_, vel2)
       IN /\ mem' = [mem EXCEPT
                  ![dev.dev_particleArrayIndices] = b.indices,
                  ![dev.dev_particleGridIndices] = b.gridIndices,
                  ![dev.dev_gridCellStartIndices] = b.table.start,
                  ![dev.dev_gridCellEndIndices] = b.table.end,
                  ![dev.dev_vel2] = vel2,
                  ![dev.dev_pos] = pos]
          /\ last' = recordStep("scattered", dt, b.indices)
  /\ dev' = swap(dev)
  /\ steps' = steps + 1
  /\ UNCHANGED <<pc, IMPL_8, numObjects, grid>>

stepSimulationCoherentGrid(dt) ==
  /\ pc = "running"
  /\ steps < MaxSteps
  /\ \E sorted \in sortedIndices(numObjects, grid, pos_) :
       LET b == gridBuild(sorted)
           \* dev_coherentVel1 is an alias of dev_vel2
           coherentPos == kernFillCoherentArrays(numObjects, b.indices, mem[dev.dev_coherentPos], pos_)
           coherentVel1 == kernFillCoherentArrays(numObjects, b.indices, mem[dev.dev_vel2], vel1_)
           coherentVel2 == kernUpdateVelNeighborSearchCoherent(IMPL_8, numObjects, grid,
                     b.table.start, b.table.end, coherentPos, coherentVel1, mem[dev.dev_coherentVel2])
           movedPos == kernUpdatePos(numObjects, dt, coherentPos, coherentVel2)
       IN /\ mem' = [mem EXCEPT
                  ![dev.dev_particleArrayIndices] = b.indices,
                  ![dev.dev_particleGridIndices] = b.gridIndices,
                  ![dev.dev_gridCellStartIndices] = b.table.start,
                  ![dev.dev_gridCellEndIndices] = b.table.end,
                  ![dev.dev_vel2] = coherentVel1,
                  ![dev.dev_coherentVel2] = coherentVel2,
                  ![dev.dev_coherentPos] = movedPos,
                  ![dev.dev_pos] = kernFillOriginalArrays(numObjects, b.indices, pos_, movedPos),
                  ![dev.dev_vel1] = kernFillOriginalArrays(numObjects, b.indices, vel1_, coherentVel2)]
          /\ last' = recordStep("coherent", dt, b.indices)
  /\ steps' = steps + 1
  /\ UNCHANGED <<pc, IMPL_8, numObjects, grid, dev>>

\* the FREE lines of endSimulation, in source order
freeOrder_twice ==
  <<"dev_vel1", "dev_vel1", "dev_pos", "dev_particleArrayIndices",
    "dev_particleGridIndices", "dev_gridCellStartIndices",
    "dev_gridCellEndIndices", "dev_coherentPos", "dev_coherentVel2">>

freeOrder ==
  <<"dev_vel1", "dev_vel2", "dev_pos", "dev_particleArrayIndices",
    "dev_particleGridIndices", "dev_gridCellStartIndices",
    "dev_gridCellEndIndices", "dev_coherentPos", "dev_coherentVel2">>

\* the buffers the FREE lines are handed, in order
freedBuffers(d) == [k \in 1..Len(freeOrder) |-> d[freeOrder[k]]]

\* cudaFree succeeds on a buffer that is held, and fails on any other
\* pointer; a failure stops the run in checkCUDAError
RECURSIVE FREE(_, _, _)
FREE(ids, k, held) ==
  IF k > Len(ids) THEN [held |-> held, failed |-> FALSE]
  ELSE IF ids[k] \notin DOMAIN held THEN [held |-> held, failed |-> TRUE]
  ELSE FREE(ids, k + 1, [id \in DOMAIN held \ {ids[k]} |-> held[id]])

endSimulation ==
  /\ pc = "running"
  /\ LET after == FREE(freedBuffers(dev), 1, mem)
     IN /\ pc' = IF after.failed THEN "exited" ELSE "ended"
        /\ mem' = after.held
  /\ UNCHANGED <<IMPL_8, numObjects, grid, dev, steps, last>>

Init ==
  /\ pc = "uninit"
  /\ IMPL_8 \in BOOLEAN
  /\ numObjects = 0
  /\ grid = [gridCellWidth |-> 0, gridSideCount |-> 0, gridCellCount |-> 0,
             gridMinimum |-> Zero3]
  /\ dev = [p \in Pointers |-> NULL]
  /\ mem = <<>>
  /\ steps = 0
  /\ last = NoStep

Next ==
  \/ \E N \in 1..MaxN, k \in 1..Len(Scenarios) : initSimulation(N, Scenarios[k])
  \/ \E dt \in DtSamples : stepSimulationNaive(dt)
  \/ \E dt \in DtSamples : stepSimulationScatteredGrid(dt)
  \/ \E dt \in DtSamples : stepSimulationCoherentGrid(dt)
  \/ endSimulation

Spec == Init /\ [][Next]_vars

(***************************************************************************)
(* Properties of the simulation steps                                      *)
(***************************************************************************)
Slots == 0..(numObjects - 1)

\* std::max(std::max(rule1Distance, rule2Distance), rule3Distance)
maxRuleDistance == Max2(Max2(rule1Distance, rule2Distance), rule3Distance)

\* the cell of boid i in the running simulation
cellOf(pos, i) == getGridIndex(pos[i], grid.gridCellWidth, grid.gridMinimum)

\* what one naive step makes of the state the last step started from
naiveVel == [i \in Slots |-> bruteForceThread(i, numObjects, last.pos, last.vel)]
naivePos == kernUpdatePos(numObjects, last.dt, last.pos, naiveVel)

\* C1: a scattered-grid step and a coherent-grid step leave every particle,
\* slot by slot, with the position and the velocity a naive step from the
\* same state and with the same dt leaves
C1_StrategiesAgree ==
  (pc = "running" /\ last.kind \in {"scattered", "coherent"}) =>
     /\ vel1_ = naiveVel
     /\ pos_ = naivePos

\* C10: in the 8-cell build, for every particle p and every other particle
\* q closer to p than the largest rule distance, the cell of q is one of the
\* 8 cells genNeighborCells enumerates for p
C10_EightCellsCoverNeighbors ==
  (pc = "running" /\ IMPL_8) =>
     \A p, q \in Slots :
        (p # q /\ distance(pos_[p], pos_[q]) < maxRuleDistance) =>
           \E n \in 1..8 :
              genNeighborCells(pos_[p], cellOf(pos_, p), grid.gridMinimum,
                               grid.gridCellWidth)[n] = cellOf(pos_, q)

\* thisPos of boid i in the last step, before the wrap: the position the
\* step started from plus dt times the velocity the step stored for i
thisPos(i) == integrate(last.pos[i], vel1_[i], last.dt)

\* C5 as stated: a coordinate that is worldExtent + e with e > 0 after the
\* integration is stored as -worldExtent + e
C5_WrapKeepsExcess ==
  (pc = "running" /\ last.kind # "none") =>
     \A i \in Slots : \A k \in Axes :
        thisPos(i)[k] > scene_scale =>
           pos_[i][k] = -scene_scale + (thisPos(i)[k] - scene_scale)

\* C5 amended: on each axis independently, a coordinate that is
\* worldExtent + e with e > 0 after the integration is stored as exactly
\* -worldExtent, and one inside the bounds is stored as it is
C5_WrapToFace ==
  (pc = "running" /\ last.kind # "none") =>
     \A i \in Slots : \A k \in Axes :
        /\ thisPos(i)[k] > scene_scale => pos_[i][k] = -scene_scale
        /\ (thisPos(i)[k] >= -scene_scale /\ thisPos(i)[k] <= scene_scale) =>
              pos_[i][k] = thisPos(i)[k]

\* a step moved a boid past +worldExtent on one axis only
C5_Witness ==
  /\ pc = "running" /\ last.kind # "none"
  /\ \E i \in Slots : \E k, m \in Axes :
        /\ thisPos(i)[k] > scene_scale
        /\ pos_[i][k] = -scene_scale
        /\ thisPos(i)[m] < scene_scale /\ thisPos(i)[m] > -scene_scale
        /\ pos_[i][m] = thisPos(i)[m]

MaxLen == 5
M_23 == 10

Size(array) == Cardinality(DOMAIN array)

\* sorted arrays of length n over the cells lo..M_23-1, cell by cell
RECURSIVE SortedArrays(_, _)
SortedArrays(n, lo) ==
  IF n = 0 THEN {<<>>}
  ELSE UNION {{<<c>> \o rest : rest \in SortedArrays(n - 1, c)} : c \in lo..(M_23 - 1)}

\* a sequence as a device array indexed from 0
ToArray(seq) == [i \in 0..(Len(seq) - 1) |-> seq[i + 1]]

\* what a table buffer may hold before the reset
StaleTables ==
  <<[size |-> M_23, rest |-> Junk, cells |-> <<>>],
    [size |-> M_23, rest |-> 0, cells |-> <<>>],
    [size |-> M_23, rest |-> -1, cells |-> [c \in {0, 4, 7} |-> c \div 2]]>>

unitTestIdle ==
  /\ IMPL_8 = FALSE /\ numObjects = 0 /\ steps = 0 /\ last = NoStep
  /\ grid = [gridCellWidth |-> 0, gridSideCount |-> 0, gridCellCount |-> 0,
             gridMinimum |-> Zero3]
  /\ dev = [p \in Pointers |-> NULL]

InitCellTable ==
  /\ unitTestIdle
  /\ pc = "uploaded"
  /\ \E n \in 1..MaxLen : \E grid_indices \in SortedArrays(n, 0) :
       \E k \in 1..Len(StaleTables) :
         mem = [dev_grid_indices |-> ToArray(grid_indices),
                dev_grid_start |-> StaleTables[k], dev_grid_end |-> StaleTables[k]]

\* the two kernResetIntBuffer launches of the test
unitTestReset ==
  /\ pc = "uploaded"
  /\ mem' = [mem EXCEPT
       !.dev_grid_start = kernResetIntBuffer(M_23, mem.dev_grid_start, -1),
       !.dev_grid_end = kernResetIntBuffer(M_23, mem.dev_grid_end, -1)]
  /\ pc' = "reset"
  /\ UNCHANGED <<IMPL_8, numObjects, grid, dev, steps, last>>

unitTestIdentify ==
  /\ pc = "reset"
  /\ LET table == kernIdentifyCellStartEnd(Size(mem.dev_grid_indices),
                    mem.dev_grid_indices, mem.dev_grid_start, mem.dev_grid_end)
     IN mem' = [mem EXCEPT !.dev_grid_start = table.start, !.dev_grid_end = table.end]
  /\ pc' = "identified"
  /\ UNCHANGED <<IMPL_8, numObjects, grid, dev, steps, last>>

NextCellTable == unitTestReset \/ unitTestIdentify

SpecCellTable == InitCellTable /\ [][NextCellTable]_vars

\* the slots of the sorted array that hold cell c
slotsOf(particleGridIndices, c) ==
  {j \in DOMAIN particleGridIndices : particleGridIndices[j] = c}

\* the table describes the array: each occurring cell has the half-open range of
\* its slots, every other cell the sentinel -1 in both tables
tableDescribes(particleGridIndices, start, end) ==
  \A c \in 0..(start.size - 1) :
     IF slotsOf(particleGridIndices, c) # {}
       THEN slotsOf(particleGridIndices, c) =
              {j \in DOMAIN particleGridIndices : bufLoad(start, c) <= j /\ j < bufLoad(end, c)}
       ELSE bufLoad(start, c) = -1 /\ bufLoad(end, c) = -1

\* C2: after the reset to -1 and kernIdentifyCellStartEnd over a sorted array,
\* whatever the tables held before, start[c] <= j < end[c] holds exactly for the
\* slots j of cell c, and cells that do not occur hold -1 in both tables
C2_CellRanges ==
  pc = "identified" =>
     tableDescribes(mem.dev_grid_indices, mem.dev_grid_start, mem.dev_grid_end)

\* the test's own array {4,4,5,9,9} after stale tables: [0,2), [2,3), [3,5)
C2_Witness ==
  /\ pc = "identified"
  /\ mem.dev_grid_indices = ToArray(<<4, 4, 5, 9, 9>>)
  /\ bufArray(mem.dev_grid_start) = ToArray(<<-1, -1, -1, -1, 0, 2, -1, -1, -1, 3>>)
  /\ bufArray(mem.dev_grid_end) = ToArray(<<-1, -1, -1, -1, 2, 3, -1, -1, -1, 5>>)

(***************************************************************************)
(* Boids::unitTest, second part: kernFillCoherentArrays, the originals     *)
(* overwritten on the host and uploaded again, kernFillOriginalArrays.     *)
(* The test uses boid_indices {0,4,1,3,2}; here any permutation of         *)
(* 0..N-1 with 1 <= N <= MaxLen.                                           *)
(***************************************************************************)
\* boid_pos and boid_vel of the test: {1,2,3}, {4,5,6}, ...; the second
\* choice makes the velocities differ from the positions
testVec(i, choice) ==
  IF choice = 0 THEN <<3 * i + 1, 3 * i + 2, 3 * i + 3>>
                ELSE <<-(i + 1), 10 * i, i * i>>

InitCoherent ==
  /\ IMPL_8 = FALSE /\ numObjects = 0 /\ steps = 0
  /\ grid = [gridCellWidth |-> 0, gridSideCount |-> 0, gridCellCount |-> 0,
             gridMinimum |-> Zero3]
  /\ dev = [p \in Pointers |-> NULL]
  /\ pc = "uploaded"
  /\ \E n \in 1..MaxLen : \E boid_indices \in Permutations0(n) : \E choice \in {0, 1} :
       /\ mem = [dev_boid_indices |-> boid_indices,
                 dev_boid_pos |-> [i \in 0..(n - 1) |-> testVec(i, 0)],
                 dev_boid_vel |-> [i \in 0..(n - 1) |-> testVec(i, choice)],
                 dev_c_boid_pos |-> [i \in 0..(n - 1) |-> Junk],
                 dev_c_boid_vel |-> [i \in 0..(n - 1) |-> Junk]]
       /\ last = [kind |-> "unitTest", dt |-> 0,
                  pos |-> [i \in 0..(n - 1) |-> testVec(i, 0)],
                  vel |-> [i \in 0..(n - 1) |-> testVec(i, choice)],
                  indices |-> boid_indices]

unitTestFillCoherent ==
  /\ pc = "uploaded"
  /\ LET N == Size(mem.dev_boid_indices)
     IN mem' = [mem EXCEPT
          !.dev_c_boid_pos = kernFillCoherentArrays(N, mem.dev_boid_indices,
                                                    mem.dev_c_boid_pos, mem.dev_boid_pos),
          !.dev_c_boid_vel = kernFillCoherentArrays(N, mem.dev_boid_indices,
                                                    mem.dev_c_boid_vel, mem.dev_boid_vel)]
  /\ pc' = "coherent"
  /\ UNCHANGED <<IMPL_8, numObjects, grid, dev, steps, last>>

\* memset(boid_pos, 0), memset(boid_vel, 0) and the two H2D copies; `fill`
\* stands for any other content the originals may be overwritten with
unitTestOverwrite(fill) ==
  /\ pc = "coherent"
  /\ mem' = [mem EXCEPT
       !.dev_boid_pos = [i \in DOMAIN mem.dev_boid_pos |-> fill],
       !.dev_boid_vel = [i \in DOMAIN mem.dev_boid_vel |-> fill]]
  /\ pc' = "overwritten"
  /\ UNCHANGED <<IMPL_8, numObjects, grid, dev, steps, last>>

unitTestFillOriginal ==
  /\ pc = "overwritten"
  /\ LET N == Size(mem.dev_boid_indices)
     IN mem' = [mem EXCEPT
          !.dev_boid_pos = kernFillOriginalArrays(N, mem.dev_boid_indices,
                                                  mem.dev_boid_pos, mem.dev_c_boid_pos),
          !.dev_boid_vel = kernFillOriginalArrays(N, mem.dev_boid_indices,
                                                  mem.dev_boid_vel, mem.dev_c_boid_vel)]
  /\ pc' = "restored"
  /\ UNCHANGED <<IMPL_8, numObjects, grid, dev, steps, last>>

NextCoherent ==
  \/ unitTestFillCoherent
  \/ \E fill \in {Zero3, <<7, 7, 7>>} : unitTestOverwrite(fill)
  \/ unitTestFillOriginal

SpecCoherent == InitCoherent /\ [][NextCoherent]_vars

\* C3: with a permutation as index array, coherent slot i holds the pair of
\* original slot particleArrayIndices[i], and after the originals were
\* overwritten kernFillOriginalArrays puts back into every original slot
\* the (position, velocity) pair it held before
C3_RoundTrip ==
  /\ pc \in {"coherent", "overwritten", "restored"} =>
       \A i \in DOMAIN mem.dev_boid_indices :
          /\ mem.dev_c_boid_pos[i] = last.pos[mem.dev_boid_indices[i]]
          /\ mem.dev_c_boid_vel[i] = last.vel[mem.dev_boid_indices[i]]
  /\ pc = "restored" =>
       /\ mem.dev_boid_pos = last.pos
       /\ mem.dev_boid_vel = last.vel

\* the test's own permutation {0,4,1,3,2}, zeroed and restored
C3_Witness ==
  /\ pc = "restored"
  /\ mem.dev_boid_indices = ToArray(<<0, 4, 1, 3, 2>>)
  /\ mem.dev_boid_pos = [i \in 0..4 |-> testVec(i, 0)]
  /\ mem.dev_c_boid_pos[1] = testVec(4, 0)

(***************************************************************************)
(* One step at the grain of the threads of its velocity kernel: the launch *)
(* (with the index build and the coherent fill that precede it), the N     *)
(* threads in any order, and the rest of the step once all have finished.  *)
(***************************************************************************)
StepKinds == {"naive", "scattered", "coherent"}

\* the pos, vel1 and vel2 arguments the step passes to its velocity kernel
velocityKernelArgs_inplace(kind) ==
  IF kind = "coherent"
    THEN [pos |-> dev.dev_coherentPos, vel1 |-> dev.dev_vel2, vel2 |-> dev.dev_vel2]
    ELSE [pos |-> dev.dev_pos, vel1 |-> dev.dev_vel1, vel2 |-> dev.dev_vel1]

velocityKernelArgs(kind) ==
  IF kind = "coherent"
    THEN [pos |-> dev.dev_coherentPos, vel1 |-> dev.dev_vel2,
          vel2 |-> dev.dev_coherentVel2]
    ELSE [pos |-> dev.dev_pos, vel1 |-> dev.dev_vel1, vel2 |-> dev.dev_vel2]

\* the boids thread `index` loops over, given the content of its pos argument
threadCandidates(kind, index, pos) ==
  CASE kind = "naive" -> allBoids(numObjects)
    [] kind = "scattered" ->
         scatteredCandidates(IMPL_8, index, grid, mem[dev.dev_gridCellStartIndices],
            mem[dev.dev_gridCellEndIndices], mem[dev.dev_particleArrayIndices], pos)
    [] kind = "coherent" ->
         searchSlots(IMPL_8, index, grid, mem[dev.dev_gridCellStartIndices],
            mem[dev.dev_gridCellEndIndices], pos)

\* the velocity thread `index` stores, given the content of pos and vel1
threadValue(kind, index, pos, vel1) ==
  CASE kind = "naive" -> bruteForceThread(index, numObjects, pos, vel1)
    [] kind = "scattered" ->
         scatteredThread(IMPL_8, index, grid, mem[dev.dev_gridCellStartIndices],
            mem[dev.dev_gridCellEndIndices], mem[dev.dev_particleArrayIndices], pos, vel1)
    [] kind = "coherent" ->
         coherentThread(IMPL_8, index, grid, mem[dev.dev_gridCellStartIndices],
            mem[dev.dev_gridCellEndIndices], pos, vel1)

\* the elements of pos and vel1 thread `index` loads: pos of itself and of
\* every other candidate, vel1 of itself and of the candidates inside rule 3
threadReads(kind, index, a) ==
  LET pos == mem[a.pos]
      cands == threadCandidates(kind, index, pos)
      others == {cands[k] : k \in 1..Len(cands)} \ {index}
      matched == {i \in others : distance(pos[i], pos[index]) < rule3Distance}
  IN {[buffer |-> a.pos, slot |-> i] : i \in others \cup {index}}
     \cup {[buffer |-> a.vel1, slot |-> i] : i \in matched \cup {index}}

launchVelocityKernel(kind) ==
  /\ pc = "running"
  /\ \/ /\ kind = "naive"
        /\ mem' = mem
        /\ last' = [kind |-> kind, dt |-> 0, pos |-> pos_, vel |-> vel1_,
                    indices |-> <<>>, reads |-> {}, writes |-> {}, done |-> {}]
     \/ /\ kind = "scattered"
        /\ \E sorted \in sortedIndices(numObjects, grid, pos_) :
             LET b == gridBuild(sorted)
             IN /\ mem' = [mem EXCEPT
                      ![dev.dev_particleArrayIndices] = b.indices,
                      ![dev.dev_particleGridIndices] = b.gridIndices,
                      ![dev.dev_gridCellStartIndices] = b.table.start,
                      ![dev.dev_gridCellEndIndices] = b.table.end]
                /\ last' = [kind |-> kind, dt |-> 0, pos |-> pos_, vel |-> vel1_,
                            indices |-> b.indices, reads |-> {}, writes |-> {},
                            done |-> {}]
     \/ /\ kind = "coherent"
        /\ \E sorted \in sortedIndices(numObjects, grid, pos_) :
             LET b == gridBuild(sorted)
                 coherentPos == kernFillCoherentArrays(numObjects, b.indices,
                                   mem[dev.dev_coherentPos], pos_)
                 coherentVel1 == kernFillCoherentArrays(numObjects, b.indices,
                                   mem[dev.dev_vel2], vel1_)
             IN /\ mem' = [mem EXCEPT
                      ![dev.dev_particleArrayIndices] = b.indices,
                      ![dev.dev_particleGridIndices] = b.gridIndices,
                      ![dev.dev_gridCellStartIndices] = b.table.start,
                      ![dev.dev_gridCellEndIndices] = b.table.end,
                      ![dev.dev_coherentPos] = coherentPos,
                      ![dev.dev_vel2] = coherentVel1]
                /\ last' = [kind |-> kind, dt |-> 0, pos |-> coherentPos,
                            vel |-> coherentVel1, indices |-> b.indices,
                            reads |-> {}, writes |-> {}, done |-> {}]
  /\ pc' = "kernel"
  /\ UNCHANGED <<IMPL_8, numObjects, grid, dev, steps>>

\* one thread of the velocity kernel, from its first load to its store
velocityThread(index) ==
  /\ pc = "kernel"
  /\ index \in Slots \ last.done
  /\ LET a == velocityKernelArgs(last.kind)
     IN /\ mem' = [mem EXCEPT ![a.vel2][index] =
                      threadValue(last.kind, index, mem[a.pos], mem[a.vel1])]
        /\ last' = [last EXCEPT
                      !.done = @ \cup {index},
                      !.reads = @ \cup threadReads(last.kind, index, a),
                      !.writes = @ \cup {[buffer |-> a.vel2, slot |-> index,
                                          thread |-> index]}]
  /\ UNCHANGED <<pc, IMPL_8, numObjects, grid, dev, steps>>

\* what follows the velocity kernel in the step
finishStep(dt) ==
  /\ pc = "kernel"
  /\ last.done = Slots
  /\ \/ /\ last.kind \in {"naive", "scattered"}
        /\ mem' = [mem EXCEPT ![dev.dev_pos] =
                      kernUpdatePos(numObjects, dt, pos_, mem[dev.dev_vel2])]
        /\ dev' = swap(dev)
     \/ /\ last.kind = "coherent"
        /\ LET movedPos == kernUpdatePos(numObjects, dt, mem[dev.dev_coherentPos],
                                         mem[dev.dev_coherentVel2])
               indices == mem[dev.dev_particleArrayIndices]
           IN mem' = [mem EXCEPT
                 ![dev.dev_coherentPos] = movedPos,
                 ![dev.dev_pos] = kernFillOriginalArrays(numObjects, indices, pos_, movedPos),
                 ![dev.dev_vel1] = kernFillOriginalArrays(numObjects, indices, vel1_,
                                      mem[dev.dev_coherentVel2])]
        /\ dev' = dev
  /\ pc' = "stepped"
  /\ steps' = steps + 1
  /\ last' = [last EXCEPT !.dt = dt]
  /\ UNCHANGED <<IMPL_8, numObjects, grid>>

NextThreads ==
  \/ \E N \in 1..MaxN, k \in 1..Len(Scenarios) : initSimulation(N, Scenarios[k])
  \/ \E kind \in StepKinds : launchVelocityKernel(kind)
  \/ \E index \in 0..(MaxN - 1) : velocityThread(index)
  \/ \E dt \in DtSamples : finishStep(dt)

SpecThreads == Init /\ [][NextThreads]_vars

\* C4: while the threads of a velocity kernel run, in any order, no element
\* of pos or vel1 a thread has loaded lies in a buffer any thread has stored
\* to, every thread has stored only to its own slot of the vel2 buffer,
\* which is neither the pos nor the vel1 buffer, and what a finished thread
\* stored is the value computed from the buffers as they were at the launch
C4_SnapshotIsolation ==
  pc = "kernel" =>
     LET a == velocityKernelArgs(last.kind)
     IN /\ \A r \in last.reads : \A w \in last.writes : r.buffer # w.buffer
        /\ \A w \in last.writes :
              /\ w.slot = w.thread
              /\ w.buffer = a.vel2
              /\ w.buffer \notin {a.pos, a.vel1}
        /\ \A index \in last.done :
              mem[a.vel2][index] = threadValue(last.kind, index, last.pos, last.vel)

\* a coherent-grid kernel in which one thread that loaded another boid's
\* velocity has finished while that boid's thread has not
C4_Witness ==
  /\ pc = "kernel" /\ last.kind = "coherent"
  /\ \E w \in last.writes : \E r \in last.reads :
        /\ r.buffer = dev.dev_vel2
        /\ r.slot # w.slot
        /\ r.slot \notin last.done

(***************************************************************************)
(* The velocity update of the last step of Spec, boid by boid              *)
(***************************************************************************)
\* what the thread that served original slot i worked on: its own index,
\* the pos and vel1 arrays its kernel was given (the coherent copies in a
\* coherent step) and the boids its loop visited, read from the tables
\* and index array the step left behind
stepView(i) ==
  IF last.kind = "coherent"
    THEN LET cpos == kernFillCoherentArrays(numObjects, last.indices, last.pos, last.pos)
             cvel == kernFillCoherentArrays(numObjects, last.indices, last.vel, last.vel)
             j == CHOOSE j \in Slots : last.indices[j] = i
         IN [self |-> j, pos |-> cpos, vel |-> cvel,
             cands |-> threadCandidates("coherent", j, cpos)]
    ELSE [self |-> i, pos |-> last.pos, vel |-> last.vel,
          cands |-> threadCandidates(last.kind, i, last.pos)]

\* vel1[index] plus the three rule terms over the candidates cands
newVelOver(view, cands) ==
  VAdd(view.vel[view.self],
       ruleSum(visitAll(cands, Len(cands), view.self, view.pos, view.vel),
               view.self, view.pos))

\* `velocity` of the thread of slot i before the clamp
lastNewVel(i) == newVelOver(stepView(i), stepView(i).cands)

Abs(x) == IF x < 0 THEN -x ELSE x

\* C7: a step with dt = 0 leaves every position unchanged in its original
\* slot, and the velocity of every slot becomes the speed-clamped sum of
\* its old velocity and the three rule terms its kernel thread computed
C7_ZeroDtFrame ==
  (pc = "running" /\ last.kind # "none" /\ last.dt = 0) =>
     /\ pos_ = last.pos
     /\ \A i \in Slots : vel1_[i] = clampSpeed(lastNewVel(i))
     /\ last.kind = "naive" => vel1_ = naiveVel

\* a coherent step with dt = 0 whose sort moved every boid to another slot
\* and whose rules changed some velocity
C7_Witness ==
  /\ pc = "running" /\ last.kind = "coherent" /\ last.dt = 0
  /\ numObjects >= 3
  /\ \A j \in Slots : last.indices[j] # j
  /\ \E i \in Slots : vel1_[i] # last.vel[i] /\ vel1_[i] # clampSpeed(last.vel[i])
  /\ pos_ = last.pos

\* the candidates of a thread that lie closer to it than the largest rule distance
nearCands(view) ==
  SelectSeq(view.cands,
            LAMBDA q : q # view.self
                       /\ distance(view.pos[q], view.pos[view.self]) < maxRuleDistance)

\* the particles at distance max(r1, r2, r3) or more from the thread's own
farOf(view) ==
  {q \in Slots \ {view.self} :
     distance(view.pos[q], view.pos[view.self]) >= maxRuleDistance}

\* the thread's arrays with particle q given the velocity v and, where x
\* is as far from the thread's own particle, the position x
withFar(view, q, x, v) ==
  IF distance(x, view.pos[view.self]) >= maxRuleDistance
    THEN [view EXCEPT !.pos[q] = x, !.vel[q] = v]
    ELSE [view EXCEPT !.vel[q] = v]

\* C8: the new velocity of a particle is the one computed with every
\* particle at distance max(r1, r2, r3) or more left out, and the one
\* computed from a state in which such a particle has another velocity
\* (and, where the kernel visits all particles, another position as far
\* away), so that no such particle has any influence on it; a particle
\* with no other particle within that distance keeps its old velocity, up
\* to the clamp
C8_Locality ==
  (pc = "running" /\ last.kind # "none") =>
     \A p \in Slots :
        LET view == stepView(p)
        IN /\ vel1_[p] = clampSpeed(newVelOver(view, nearCands(view)))
           /\ \A q \in farOf(view) : \A v \in {v2, v4} :
                 vel1_[p] = clampSpeed(newVelOver([view EXCEPT !.vel[q] = v], view.cands))
           /\ last.kind = "naive" =>
                 \A q \in farOf(view) : \A x \in {pD, pE} :
                    vel1_[p] = clampSpeed(newVelOver(withFar(view, q, x, v2), view.cands))
           /\ (\A q \in Slots \ {p} :
                  distance(last.pos[q], last.pos[p]) >= maxRuleDistance) =>
                 vel1_[p] = clampSpeed(last.vel[p])

\* a naive step in which a boid had a boid at exactly the largest rule
\* distance, another one nearer, and changed its velocity
C8_Witness ==
  /\ pc = "running" /\ last.kind = "naive"
  /\ \E p, q, r \in Slots :
        /\ p # q /\ p # r
        /\ distance(last.pos[q], last.pos[p]) = maxRuleDistance
        /\ distance(last.pos[r], last.pos[p]) < maxRuleDistance
        /\ vel1_[p] # clampSpeed(last.vel[p])

candidateCells(i) ==
  neighborCells(IMPL_8, pos_[i], cellOf(pos_, i), grid.gridMinimum, grid.gridCellWidth)

\* a cell coordinate inside the grid on every axis
insideGrid(npos) == \A k \in Axes : npos[k] >= 0 /\ npos[k] < grid.gridSideCount

\* C11: in a grid search started from any state of the simulation, a
\* candidate cell whose coordinate lies outside [0, sideCount) on some axis
\* passes no range test, so that its start/end entries are not read
C11_OutsideCellsSkipped ==
  pc = "running" =>
     \A i \in Slots : \A n \in 1..Len(candidateCells(i)) :
        ~insideGrid(candidateCells(i)[n]) =>
           ~cellVisited(candidateCells(i)[n], grid.gridSideCount)

(***************************************************************************)
(* initSimulation at the grain of its nine allocations, each of which may  *)
(* fail.  pc names the pointer the next cudaMalloc is for.                  *)
(***************************************************************************)
allocIndex(p) == CHOOSE id \in 1..Len(allocOrder) : allocOrder[id] = p

\* what cudaMalloc hands out for pointer p: memory nothing has written yet
freshBuffer(p, N, g) ==
  IF p \in {"dev_gridCellStartIndices", "dev_gridCellEndIndices"}
    THEN [size |-> g.gridCellCount, rest |-> Junk, cells |-> <<>>]
    ELSE [index \in 0..(N - 1) |-> Junk]

\* numObjects = N, up to the first cudaMalloc
initSimulationEnter(N) ==
  /\ pc = "uninit"
  /\ numObjects' = N
  /\ pc' = allocOrder[1]
  /\ UNCHANGED <<IMPL_8, grid, dev, mem, steps, last>>

\* a cudaMalloc that succeeds, with the code that follows it up to the next
\* one: after dev_vel2, kernGenerateRandomPosArray and the grid parameters;
\* after dev_coherentVel2, the return
cudaMallocSucceeds(scenario) ==
  /\ pc \in Pointers
  /\ LET k == allocIndex(pc)
         held == [id \in (DOMAIN mem) \cup {k} |->
                    IF id = k THEN freshBuffer(pc, numObjects, grid) ELSE mem[id]]
     IN /\ dev' = [dev EXCEPT ![pc] = k]
        /\ IF pc = "dev_vel2"
             THEN /\ mem' = [held EXCEPT ![dev.dev_pos] =
                               kernGenerateRandomPosArray(numObjects, scenario)]
                  /\ grid' = gridParams(grid)
             ELSE /\ mem' = held
                  /\ grid' = grid
        /\ pc' = IF k = Len(allocOrder) THEN "running" ELSE allocOrder[k + 1]
  /\ UNCHANGED <<IMPL_8, numObjects, steps, last>>

\* a cudaMalloc that fails: checkCUDAError prints the message ...
cudaMallocFails ==
  /\ pc \in Pointers
  /\ pc' = "reported"
  /\ UNCHANGED <<IMPL_8, numObjects, grid, dev, mem, steps, last>>

\* ... and calls exit(EXIT_FAILURE)
exitFailure ==
  /\ pc = "reported"
  /\ pc' = "exited"
  /\ UNCHANGED <<IMPL_8, numObjects, grid, dev, mem, steps, last>>

NextAlloc ==
  \/ \E N \in 1..MaxN : initSimulationEnter(N)
  \/ \E k \in 1..Len(Scenarios) : cudaMallocSucceeds(Scenarios[k])
  \/ cudaMallocFails
  \/ exitFailure

SpecAlloc == Init /\ [][NextAlloc]_vars

\* the buffers the program holds
heldBuffers == DOMAIN mem

\* C12: when the failure of one of the nine allocations has been reported,
\* no buffer of the earlier allocations of the call is still held
C12_AllOrNothing ==
  pc \in {"reported", "exited"} => heldBuffers = {}

\* C15: when initSimulation(N) has returned, every particle has a position
\* inside the world extent on every axis and a velocity that something has
\* written in the current velocity buffer dev_vel1
C15_VelocitiesDefined ==
  pc = "running" =>
     \A i \in Slots :
        /\ \A k \in Axes : pos_[i][k] >= -scene_scale /\ pos_[i][k] <= scene_scale
        /\ vel1_[i] # Junk

(***************************************************************************)
(* Teardown                                                                *)
(***************************************************************************)
\* C13: one call of endSimulation, after any steps and any number of swaps
\* of dev_vel1 and dev_vel2, frees every buffer initSimulation allocated,
\* each exactly once, and frees nothing that was not allocated: the buffers
\* handed to cudaFree are pairwise distinct, they are exactly the buffers
\* held, every cudaFree succeeds, and nothing is held afterwards.
C13_FreesEachOnce ==
  [][pc = "running" /\ pc' # "running" =>
       /\ \A j, k \in 1..Len(freeOrder) :
             freedBuffers(dev)[j] = freedBuffers(dev)[k] => j = k
       /\ {freedBuffers(dev)[k] : k \in 1..Len(freeOrder)} = DOMAIN mem
       /\ DOMAIN mem = 1..Len(allocOrder)
       /\ pc' = "ended"
       /\ DOMAIN mem' = {}]_vars

\* teardown after two steps of which exactly one swapped the velocity buffers
C13_Witness ==
  /\ pc = "ended"
  /\ steps = 2
  /\ dev.dev_vel1 = allocIndex("dev_vel2")
  /\ DOMAIN mem = {}

(***************************************************************************)
(* Re-initialization: initSimulation, steps, endSimulation and             *)
(* initSimulation again in one process.  gridMinimum is a global that      *)
(* initSimulation decrements and nothing resets.                           *)
(***************************************************************************)
MaxInits == 2

\* the number of calls of initSimulation so far, read off gridMinimum
initCount == IF grid.gridCellWidth = 0 THEN 0 ELSE (0 - grid.gridMinimum[1]) \div (grid.gridCellWidth * (grid.gridSideCount \div 2))

reinitSimulation(N, scenario) ==
  /\ pc = "ended"
  /\ initCount < MaxInits
  /\ numObjects' = N
  /\ dev' = [p \in Pointers |-> CHOOSE id \in 1..Len(allocOrder) : allocOrder[id] = p]
  /\ grid' = gridParams(grid)
  /\ mem' = [id \in 1..Len(allocOrder) |->
               CASE allocOrder[id] = "dev_pos" -> kernGenerateRandomPosArray(N, scenario)
                 [] allocOrder[id] = "dev_vel1" -> [index \in 0..(N - 1) |-> scenario[index + 1].vel]
                 [] allocOrder[id] \in {"dev_gridCellStartIndices", "dev_gridCellEndIndices"} -> [size |-> gridParams(grid).gridCellCount, rest |-> Junk, cells |-> <<>>]
                 [] OTHER -> [index \in 0..(N - 1) |-> Junk]]
  /\ pc' = "running"
  /\ last' = NoStep
  /\ UNCHANGED <<IMPL_8, steps>>

\* the device assertions a grid step passes through in kernComputeIndices
kernComputeIndicesAsserts ==
  /\ \A i \in 0..(numObjects - 1) : getGridIndexAssert(pos_[i], grid.gridCellWidth, grid.gridMinimum)
  /\ computeIndicesAssert(numObjects, grid.gridSideCount,
        kernComputeIndices(numObjects, grid.gridSideCount, grid.gridMinimum,
                           grid.gridCellWidth, pos_).gridIndices)

\* a grid step whose kernComputeIndices trips an assertion stops the run
kernComputeIndicesTraps ==
  /\ pc = "running"
  /\ steps < MaxSteps
  /\ ~kernComputeIndicesAsserts
  /\ pc' = "aborted"
  /\ UNCHANGED <<IMPL_8, numObjects, grid, dev, mem, steps, last>>

NextReinit ==
  \/ \E N \in 1..MaxN, k \in 1..Len(Scenarios) : initSimulation(N, Scenarios[k])
  \/ \E N \in 1..MaxN, k \in 1..Len(Scenarios) : reinitSimulation(N, Scenarios[k])
  \/ \E dt \in DtSamples : stepSimulationNaive(dt)
  \/ \E dt \in DtSamples : pc = "running" /\ kernComputeIndicesAsserts /\ stepSimulationScatteredGrid(dt)
  \/ \E dt \in DtSamples : pc = "running" /\ kernComputeIndicesAsserts /\ stepSimulationCoherentGrid(dt)
  \/ kernComputeIndicesTraps
  \/ endSimulation

SpecReinit == Init /\ [][NextReinit]_vars

\* C14: after every call of initSimulation, re-initialization included, and
\* after every step, cellWidth = multiplier * max(r1, r2, r3),
\* sideCount = 2 * (floor(S / cellWidth) + 1), cellCount = sideCount^3 and
\* gridMinimum = -(floor(S / cellWidth) + 1) * cellWidth on each axis.
C14_GridGeometry ==
  pc = "running" =>
     LET cellWidth == cell_width_mul * Max2(Max2(rule1Distance, rule2Distance), rule3Distance)
         halfSideCount == (scene_scale \div cellWidth) + 1
     IN /\ grid.gridCellWidth = cellWidth
        /\ grid.gridSideCount = 2 * halfSideCount
        /\ grid.gridCellCount = (2 * halfSideCount) * (2 * halfSideCount) * (2 * halfSideCount)
        /\ \A k \in Axes : grid.gridMinimum[k] = 0 - halfSideCount * cellWidth

(***************************************************************************)
(* The sort of a grid step                                                 *)
(***************************************************************************)
\* what stepSimulationScatteredGrid leaves in dev_pos and in the buffer that
\* becomes dev_vel1, when its sort gave `sorted`
scatteredOutcome(sorted, dt) ==
  LET b == gridBuild(sorted)
      vel2 == kernUpdateVelNeighborSearchScattered(IMPL_8, numObjects, grid,
                b.table.start, b.table.end, b.indices, pos_, vel1_, mem[dev.dev_vel2])
  IN [pos |-> kernUpdatePos(numObjects, dt, pos_, vel2), vel |-> vel2]

\* what stepSimulationCoherentGrid leaves in dev_pos and dev_vel1
coherentOutcome(sorted, dt) ==
  LET b == gridBuild(sorted)
      coherentPos == kernFillCoherentArrays(numObjects, b.indices, mem[dev.dev_coherentPos], pos_)
      coherentVel1 == kernFillCoherentArrays(numObjects, b.indices, mem[dev.dev_vel2], vel1_)
      coherentVel2 == kernUpdateVelNeighborSearchCoherent(IMPL_8, numObjects, grid,
                b.table.start, b.table.end, coherentPos, coherentVel1, mem[dev.dev_coherentVel2])
      movedPos == kernUpdatePos(numObjects, dt, coherentPos, coherentVel2)
  IN [pos |-> kernFillOriginalArrays(numObjects, b.indices, pos_, movedPos),
      vel |-> kernFillOriginalArrays(numObjects, b.indices, vel1_, coherentVel2)]

\* initSimulation and one step of any strategy: the states in which the
\* sort of a following grid step is examined
NextSort ==
  \/ \E N \in 1..MaxN, k \in 1..Len(Scenarios) : initSimulation(N, Scenarios[k])
  \/ \E dt \in DtSamples : steps = 0 /\ stepSimulationNaive(dt)
  \/ \E dt \in DtSamples : steps = 0 /\ stepSimulationScatteredGrid(dt)
  \/ \E dt \in DtSamples : steps = 0 /\ stepSimulationCoherentGrid(dt)

SpecSort == Init /\ [][NextSort]_vars

\* the outcomes of the sort in this state
sortOutcomes == sortedIndices(numObjects, grid, pos_)

\* a sort outcome is sorted by cell index and keeps each particle index
\* paired with the cell index of that particle
properlySorted(sorted) ==
  /\ IsSorted(sorted.keys, numObjects)
  /\ \A k \in Slots : sorted.values[k] \in Slots /\ sorted.keys[k] = computeIndicesThread(sorted.values[k], grid.gridSideCount, grid.gridMinimum, grid.gridCellWidth, pos_)
  /\ \A j, k \in Slots : sorted.values[j] = sorted.values[k] => j = k

\* C16: the result of a grid-scattered or grid-coherent step does not depend
\* on how the sort orders particles of equal cell index: every outcome of
\* the sort is sorted by cell index with each particle index paired with its
\* own cell index, and all outcomes leave one and the same array of
\* positions and one and the same array of velocities.
C16_SortTiesIrrelevant ==
  pc = "running" =>
     /\ \A sorted \in sortOutcomes : properlySorted(sorted)
     /\ \A dt \in DtSamples :
           /\ Cardinality({scatteredOutcome(sorted, dt) : sorted \in sortOutcomes}) = 1
           /\ Cardinality({coherentOutcome(sorted, dt) : sorted \in sortOutcomes}) = 1

\* three boids share a cell and the sort has six outcomes, after a step
C16_Witness ==
  /\ pc = "running"
  /\ steps > 0
  /\ numObjects = 3
  /\ Cardinality(sortOutcomes) = 6
  /\ \E i, j \in Slots : pos_[i] # pos_[j]

(***************************************************************************)
(* The current velocity buffer across steps of any mix                     *)
(***************************************************************************)
\* C17: after any sequence of naive, scattered and coherent steps, dev_vel1
\* holds at every slot i the velocity the most recent step computed for the
\* particle of slot i, and dev_pos holds at slot i the position that step
\* gave that particle: the clamped sum of the particle's velocity before the
\* step and its rule terms, and its position before the step moved by that
\* velocity; whatever an earlier step left in dev_vel2 has no part in it.
C17_CurrentVelocity ==
  (pc = "running" /\ last.kind # "none") =>
     /\ DOMAIN vel1_ = Slots
     /\ DOMAIN pos_ = Slots
     /\ \A i \in Slots :
           /\ vel1_[i] = clampSpeed(lastNewVel(i))
           /\ pos_[i] = updatePosThread(i, last.dt, last.pos, vel1_)

\* a step that swapped the pointers, followed by a coherent step whose
\* scratch copy in dev_vel2 is the old velocities in another order
C17_Witness ==
  /\ pc = "running"
  /\ steps = 2
  /\ last.kind = "coherent"
  /\ dev.dev_vel1 = allocIndex("dev_vel2")
  /\ mem[dev.dev_vel2] # last.vel
  /\ mem[dev.dev_vel2] # vel1_
  /\ \E i \in Slots : vel1_[i] # last.vel[i]

(***************************************************************************)
(* kernIdentifyCellStartEnd thread by thread: each thread runs its first   *)
(* if statement and then its second, and the threads interleave freely.    *)
(* The array is any sorted array of 1..MaxThreads cells, the tables have   *)
(* just been reset to -1.                                                  *)
(***************************************************************************)
MaxThreads == 3

resetTable == [size |-> M_23, rest |-> -1, cells |-> <<>>]

InitIdentify ==
  /\ IMPL_8 = FALSE /\ steps = 0
  /\ grid = [gridCellWidth |-> 0, gridSideCount |-> 0, gridCellCount |-> 0,
             gridMinimum |-> Zero3]
  /\ dev = [p \in Pointers |-> NULL]
  /\ pc = "launched"
  /\ \E n \in 1..MaxThreads : \E grid_indices \in SortedArrays(n, 0) :
       /\ numObjects = n
       /\ mem = [dev_grid_indices |-> ToArray(grid_indices),
                 dev_grid_start |-> resetTable, dev_grid_end |-> resetTable]
       /\ last = [kind |-> "identify", array |-> ToArray(grid_indices),
                  at |-> [index \in 0..(n - 1) |-> "start"],
                  reads |-> {}, startWrites |-> {}, endWrites |-> {}]

\* the slots of particleGridIndices a thread reads in its first if statement
startReads(index) == IF index = 0 THEN {index} ELSE {index - 1, index}

\* and in its second
endReads(index, N) == IF index = N - 1 THEN {index} ELSE {index + 1, index}

\* if (!index || pgi[index - 1] != pgi[index]) start[pgi[index]] = index;
identifyStart(index) ==
  /\ pc = "launched"
  /\ last.at[index] = "start"
  /\ LET writes == index \in startWriters(numObjects, mem.dev_grid_indices)
         cell == mem.dev_grid_indices[index]
     IN /\ mem' = IF writes
                    THEN [mem EXCEPT !.dev_grid_start = bufStore(mem.dev_grid_start, cell, index)]
                    ELSE mem
        /\ last' = [last EXCEPT !.at[index] = "end",
                       !.reads = last.reads \cup startReads(index),
                       !.startWrites = IF writes THEN last.startWrites \cup {<<index, cell>>}
                                       ELSE last.startWrites]
  /\ UNCHANGED <<pc, IMPL_8, numObjects, grid, dev, steps>>

\* if (index == N - 1 || pgi[index + 1] != pgi[index]) end[pgi[index]] = index + 1;
identifyEnd(index) ==
  /\ pc = "launched"
  /\ last.at[index] = "end"
  /\ LET writes == index \in endWriters(numObjects, mem.dev_grid_indices)
         cell == mem.dev_grid_indices[index]
     IN /\ mem' = IF writes
                    THEN [mem EXCEPT !.dev_grid_end = bufStore(mem.dev_grid_end, cell, index + 1)]
                    ELSE mem
        /\ last' = [last EXCEPT !.at[index] = "returned",
                       !.reads = last.reads \cup endReads(index, numObjects),
                       !.endWrites = IF writes THEN last.endWrites \cup {<<index, cell>>}
                                     ELSE last.endWrites]
  /\ UNCHANGED <<pc, IMPL_8, numObjects, grid, dev, steps>>

\* the kernel is complete when every thread has returned
identifyComplete ==
  /\ pc = "launched"
  /\ \A index \in 0..(numObjects - 1) : last.at[index] = "returned"
  /\ pc' = "identified"
  /\ UNCHANGED <<IMPL_8, numObjects, grid, dev, mem, steps, last>>

NextIdentify ==
  \/ \E index \in 0..(numObjects - 1) : identifyStart(index)
  \/ \E index \in 0..(numObjects - 1) : identifyEnd(index)
  \/ identifyComplete

SpecIdentify == InitIdentify /\ [][NextIdentify]_vars

\* C18: in kernIdentifyCellStartEnd over a sorted array, under any
\* interleaving of the threads, no two threads write the same slot of the
\* start table, no two threads write the same slot of the end table, every
\* slot of the sorted array a thread reads lies in [0, N), the sorted array
\* is not written, and when all threads have returned the two tables are
\* the ones the threads leave when they run one after the other in index
\* order.
C18_ScheduleIndependent ==
  /\ \A w1, w2 \in last.startWrites : w1[2] = w2[2] => w1[1] = w2[1]
  /\ \A w1, w2 \in last.endWrites : w1[2] = w2[2] => w1[1] = w2[1]
  /\ last.reads \subseteq 0..(numObjects - 1)
  /\ mem.dev_grid_indices = last.array
  /\ pc = "identified" =>
        LET serial == kernIdentifyCellStartEnd(numObjects, last.array, resetTable, resetTable)
        IN /\ bufArray(mem.dev_grid_start) = bufArray(serial.start)
           /\ bufArray(mem.dev_grid_end) = bufArray(serial.end)

\* all three threads have returned; two of them shared a cell, so that one
\* wrote only the start and the other only the end of that cell
C18_Witness ==
  /\ pc = "identified"
  /\ numObjects = 3
  /\ mem.dev_grid_indices[0] = mem.dev_grid_indices[1]
  /\ mem.dev_grid_indices[1] # mem.dev_grid_indices[2]
  /\ Cardinality(last.startWrites) = 2
  /\ Cardinality(last.endWrites) = 2
  /\ last.reads = 0..2

=============================================================================
